---------------------------- MODULE Spec2Model ----------------------------
(***************************************************************************)
(* A model of three units of the web3.storage repository:                  *)
(*                                                                         *)
(*   - userUploadsGet  (packages/api/src/user.js): query-parameter         *)
(*     validation, the listUploads store call and the pagination links;    *)
(*   - Subscribe       (website/components/blog/subscribe/subscribe.js):   *)
(*     the submit handler, its fetch and the React state it drives;        *)
(*   - Accordion       (website/modules/zero/components/accordion):        *)
(*     the constructor and setActiveSections.                              *)
(*                                                                         *)
(* Strings the code inspects character by character (query parameters,     *)
(* link fields) are sequences of one-character strings.                    *)
(***************************************************************************)
EXTENDS Integers, Sequences, FiniteSets, TLC

VARIABLES
    \* ---- userUploadsGet ----
    request,            \* the query parameters of the request being served
    phase,              \* "received" (handler not yet run) or "responded"
    response,           \* what the handler returned or threw
    listUploadsCalls,   \* the env.db.listUploads calls made for this request
    via,                \* how the request came about: "direct", "next", "prev"
    \* ---- Subscribe ----
    status, errorMsg, disabled, email,   \* the four useState cells
    rendered,           \* the state the last render closed over (the form's handlers)
    inflight,           \* fetches issued and not yet settled
    submits,            \* number of submit events handled so far
    settled,            \* the fetches that settled, in order, with their outcome
    \* ---- Accordion ----
    multiple,           \* props.multiple
    active,             \* state.active
    threw,              \* a setActiveSections call raised a TypeError
    calls               \* the ids setActiveSections was called with, in order

uploadVars == <<request, phase, response, listUploadsCalls, via>>
subscribeVars == <<status, errorMsg, disabled, email, rendered, inflight, submits, settled>>
accordionVars == <<multiple, active, threw, calls>>
vars == <<uploadVars, subscribeVars, accordionVars>>

-----------------------------------------------------------------------------
(* Bounds of the model *)

\* query parameters are drawn from the decimal forms of -1..MaxSmall (and a
\* few larger values around the limits)
MaxSmall == 2
\* the store holds 0..MaxCount matching rows (and a few larger totals)
MaxCount == 2
\* submit events of the Subscribe form in one run
MaxSubmits == 3
\* setActiveSections calls in one run
MaxCalls == 4
\* number of accordion sections (ids 1..NumSections)
NumSections == 3

-----------------------------------------------------------------------------
(* Characters and numbers as text *)

Digits == <<"0", "1", "2", "3", "4", "5", "6", "7", "8", "9">>

IsDigit(c) == \E i \in 1..10 : Digits[i] = c

DigitVal(c) == (CHOOSE i \in 1..10 : Digits[i] = c) - 1

RECURSIVE NatToString(_)
NatToString(n) ==
    IF n < 10 THEN <<Digits[n + 1]>>
    ELSE NatToString(n \div 10) \o <<Digits[(n % 10) + 1]>>

\* Number.prototype.toString for an integer, as a template literal and
\* encodeURIComponent produce it ("-" is not escaped).
NumberToString(n) ==
    IF n < 0 THEN <<"-">> \o NatToString(0 - n) ELSE NatToString(n)

RECURSIVE TrimStart(_)
TrimStart(s) ==
    IF s # <<>> /\ s[1] = " " THEN TrimStart(Tail(s)) ELSE s

\* the longest prefix of decimal digits
RECURSIVE DigitPrefix(_)
DigitPrefix(s) ==
    IF s # <<>> /\ IsDigit(s[1]) THEN <<s[1]>> \o DigitPrefix(Tail(s)) ELSE <<>>

RECURSIVE DigitsValue(_, _)
DigitsValue(s, acc) ==
    IF s = <<>> THEN acc ELSE DigitsValue(Tail(s), 10 * acc + DigitVal(s[1]))

NaN == [nan |-> TRUE, val |-> 0]

Num(n) == [nan |-> FALSE, val |-> n]

\* parseInt(string) with no radix: leading white space is skipped, one sign is
\* read, then the longest run of decimal digits; no digit gives NaN.  (The
\* 0x prefix is not modelled: no input of the model holds an "x".)
ParseInt(s) ==
    LET t == TrimStart(s)
        neg == t # <<>> /\ t[1] = "-"
        signed == t # <<>> /\ (t[1] = "-" \/ t[1] = "+")
        rest == IF signed THEN Tail(t) ELSE t
        ds == DigitPrefix(rest)
    IN  IF ds = <<>> THEN NaN
        ELSE Num(IF neg THEN 0 - DigitsValue(ds, 0) ELSE DigitsValue(ds, 0))

IsNaN(p) == p.nan


-----------------------------------------------------------------------------
(* Dates: new Date(string), getTime() and toISOString() on the date-only ISO
   form YYYY-MM-DD, the only date form the model's inputs take.  V8 accepts a
   month in 1..12 and a day in 1..31. *)

InvalidDate == [nan |-> TRUE, y |-> 0, m |-> 0, d |-> 0]

IsDateShape(s) ==
    /\ Len(s) = 10
    /\ s[5] = "-" /\ s[8] = "-"
    /\ \A i \in {1, 2, 3, 4, 6, 7, 9, 10} : IsDigit(s[i])

\* new Date(string): the time value, kept as its calendar fields
NewDate(s) ==
    IF ~IsDateShape(s) THEN InvalidDate
    ELSE LET y == DigitsValue(SubSeq(s, 1, 4), 0)
             m == DigitsValue(SubSeq(s, 6, 7), 0)
             d == DigitsValue(SubSeq(s, 9, 10), 0)
         IN  IF m \in 1..12 /\ d \in 1..31
             THEN [nan |-> FALSE, y |-> y, m |-> m, d |-> d]
             ELSE InvalidDate

Pad(n, width) ==
    LET t == NatToString(n)
    IN  [i \in 1..(width - Len(t)) |-> "0"] \o t

\* Date.prototype.toISOString of a valid date parsed from the date-only form
ToISOString(date) ==
    Pad(date.y, 4) \o <<"-">> \o Pad(date.m, 2) \o <<"-">> \o Pad(date.d, 2)
        \o <<"T", "0", "0", ":", "0", "0", ":", "0", "0", ".", "0", "0", "0", "Z">>

-----------------------------------------------------------------------------
(* userUploadsGet: the request *)

\* a query parameter: searchParams.has(name) and searchParams.get(name)
Absent == [has |-> FALSE, val |-> <<>>]

Present(s) == [has |-> TRUE, val |-> s]

\* program constants of the validation
DefaultSize == 25
MaxPageSize == 1000
DefaultOffset == 0
MaxPageOffset == 1000

\* text of the numeric parameters the model sends: decimal integers, integers
\* followed by other characters, and text that holds no integer
IntSamples == (-1..MaxSmall) \cup {25, 1000, 1001}

IntStrings ==
    {NumberToString(n) : n \in IntSamples}
        \cup {<<>>, <<"a", "b", "c">>, <<"2", "a">>, <<" ", "1">>}

NumericParams == {Absent} \cup {Present(s) : s \in IntStrings}

DateStrings ==
    { <<"2", "0", "2", "1", "-", "0", "1", "-", "1", "5">>,
      <<"2", "0", "2", "1", "-", "1", "3", "-", "0", "1">>,
      <<"n", "o", "t", "-", "a", "-", "d", "a", "t", "e">> }

DateParams == {Absent} \cup {Present(s) : s \in DateStrings}

SortByParams == {Absent, Present(<<"N", "a", "m", "e">>)}

SortOrderParams == {Absent, Present(<<>>), Present(<<"A", "s", "c">>)}

Requests ==
    [size : NumericParams, offset : NumericParams,
     before : DateParams, after : DateParams,
     sortBy : SortByParams, sortOrder : SortOrderParams]

-----------------------------------------------------------------------------
(* userUploadsGet: validation *)

\* mutant of SizeInvalid: the lower bound tested with < in place of <=
SizeInvalidAllowsZero(parsedSize) ==
    IsNaN(parsedSize) \/ parsedSize.val < 0 \/ parsedSize.val > MaxPageSize

\* isNaN(parsedSize) || parsedSize <= 0 || parsedSize > 1000
SizeInvalid(parsedSize) ==
    IsNaN(parsedSize) \/ parsedSize.val <= 0 \/ parsedSize.val > MaxPageSize

\* mutant of OffsetInvalid: the lower bound tested with < in place of <=
OffsetInvalidAllowsZero(parsedOffset) ==
    IsNaN(parsedOffset) \/ parsedOffset.val < 0 \/ parsedOffset.val > MaxPageOffset

\* isNaN(parsedOffset) || parsedOffset <= 0 || parsedOffset > 1000
OffsetInvalid(parsedOffset) ==
    IsNaN(parsedOffset) \/ parsedOffset.val <= 0 \/ parsedOffset.val > MaxPageOffset

\* isNaN(parsedBefore.getTime())
DateInvalid(date) == date.nan

\* mutant of SizeOf: the offset's default used for an absent size
SizeOfWrongDefault(req) ==
    IF req.size.has THEN ParseInt(req.size.val).val ELSE DefaultOffset

\* let size = 25; if (searchParams.has('size')) { ... size = parsedSize }
SizeOf(req) ==
    IF req.size.has THEN ParseInt(req.size.val).val ELSE DefaultSize

\* let offset = 0; if (searchParams.has('offset')) { ... offset = parsedOffset }
OffsetOf(req) ==
    IF req.offset.has THEN ParseInt(req.offset.val).val ELSE DefaultOffset

\* let before; if (searchParams.has('before')) { ... before = toISOString() }
DateOf(param) ==
    IF param.has THEN Present(ToISOString(NewDate(param.val))) ELSE Absent

\* searchParams.get(name) || fallback
GetOr(param, fallback) ==
    IF param.has /\ param.val # <<>> THEN param.val ELSE fallback

Rejected(message) ==
    [ok |-> FALSE, message |-> message, size |-> 0, offset |-> 0,
     before |-> Absent, after |-> Absent]

Accepted(req) ==
    [ok |-> TRUE, message |-> "", size |-> SizeOf(req), offset |-> OffsetOf(req),
     before |-> DateOf(req.before), after |-> DateOf(req.after)]

\* mutant of Validate: the two dates checked before size and offset
ValidateDatesFirst(req) ==
    IF req.before.has /\ DateInvalid(NewDate(req.before.val))
    THEN Rejected("invalid before date")
    ELSE IF req.after.has /\ DateInvalid(NewDate(req.after.val))
    THEN Rejected("invalid after date")
    ELSE IF req.size.has /\ SizeInvalid(ParseInt(req.size.val))
    THEN Rejected("invalid page size")
    ELSE IF req.offset.has /\ OffsetInvalid(ParseInt(req.offset.val))
    THEN Rejected("invalid page offset")
    ELSE Accepted(req)

\* the four checks, in the order of the code; the first failure throws
Validate(req) ==
    IF req.size.has /\ SizeInvalid(ParseInt(req.size.val))
    THEN Rejected("invalid page size")
    ELSE IF req.offset.has /\ OffsetInvalid(ParseInt(req.offset.val))
    THEN Rejected("invalid page offset")
    ELSE IF req.before.has /\ DateInvalid(NewDate(req.before.val))
    THEN Rejected("invalid before date")
    ELSE IF req.after.has /\ DateInvalid(NewDate(req.after.val))
    THEN Rejected("invalid after date")
    ELSE Accepted(req)

-----------------------------------------------------------------------------
(* userUploadsGet: the store call *)

\* the second argument of env.db.listUploads
QueryOf(req, v) ==
    [size |-> v.size, offset |-> v.offset, before |-> v.before, after |-> v.after,
     sortBy |-> GetOr(req.sortBy, <<"D", "a", "t", "e">>),
     sortOrder |-> GetOr(req.sortOrder, <<"D", "e", "s", "c">>)]

\* totals of matching rows the store may report
CountSamples == (0..MaxCount) \cup {30, 1002, 2000}

Min(a, b) == IF a < b THEN a ELSE b

Max(a, b) == IF a < b THEN b ELSE a

\* rows offset+1 .. offset+n of the matching set, as the page returned
Rows(offset, n) == [i \in 1..n |-> offset + i]

\* What the awaited env.db.listUploads may settle with: a rejection, or
\* { uploads, count } where count is the total of matching rows and uploads
\* holds rows from index offset on, at most size of them (a full page, or a
\* shorter one).
StoreOutcomes(query) ==
    {[failed |-> TRUE, count |-> 0, uploads |-> <<>>]}
        \cup UNION {
            LET full == Min(query.size, Max(0, c - query.offset))
            IN  {[failed |-> FALSE, count |-> c, uploads |-> Rows(query.offset, n)]
                    : n \in {full, Max(0, full - 1), 0}}
            : c \in CountSamples }

-----------------------------------------------------------------------------
(* userUploadsGet: the response *)

NoLink == [present |-> FALSE, size |-> <<>>, offset |-> <<>>, rel |-> ""]

\* `<${pathname}?size=${size}&offset=${encodeURIComponent(o)}>; rel="next"`:
\* the pathname is the request's own, so the link names this handler
Link(size, o) ==
    [present |-> TRUE, size |-> NumberToString(size),
     offset |-> NumberToString(o), rel |-> "next"]

\* mutant of HasNext: <= in place of <
HasNextInclusive(length, offset, count) == length + offset <= count

\* data.uploads.length + offset < data.count
HasNext(length, offset, count) == length + offset < count

\* const nextOffset = offset + size
NextOffset(offset, size) == offset + size

\* if (offset)
HasPrev(offset) == offset # 0

\* mutant of PreviousOffset: the previous offset clamped at 0
PreviousOffsetClamped(offset, size) == Max(0, offset - size)

\* const previousOffset = offset - size
PreviousOffset(offset, size) == offset - size

NoHeaders ==
    [Count |-> 0, Size |-> 0, Offset |-> 0, Next_link |-> NoLink, Prev_link |-> NoLink]

NoResponse == [status |-> 0, message |-> "", body |-> <<>>, headers |-> NoHeaders]

\* throw Object.assign(new Error(message), { status: 400 })
ClientError(message) ==
    [status |-> 400, message |-> message, body |-> <<>>, headers |-> NoHeaders]

\* a rejection of env.db.listUploads propagates out of the handler
InternalError ==
    [status |-> 500, message |-> "store error", body |-> <<>>, headers |-> NoHeaders]

\* new JSONResponse(data.uploads, { headers })
Page(size, offset, data) ==
    [status |-> 200, message |-> "", body |-> data.uploads,
     headers |->
        [Count |-> data.count, Size |-> size, Offset |-> offset,
         Next_link |->
            IF HasNext(Len(data.uploads), offset, data.count)
            THEN Link(size, NextOffset(offset, size)) ELSE NoLink,
         Prev_link |->
            IF HasPrev(offset)
            THEN Link(size, PreviousOffset(offset, size)) ELSE NoLink]]

\* the request a client makes by following a link: size and offset only
LinkRequest(link) ==
    [size |-> Present(link.size), offset |-> Present(link.offset),
     before |-> Absent, after |-> Absent, sortBy |-> Absent, sortOrder |-> Absent]

-----------------------------------------------------------------------------
(* Subscribe *)

\* what the user may type into the email input
Emails == {"", "a@x.io", "b@x.io"}

\* what a fetch settles with: an HTTP status, or 0 for a rejected promise
\* (no response at all)
FetchOutcomes == {0, 200, 202, 400, 500}

\* if (res.status !== 200 && res.status !== 202) throw new Error()
\* (a rejected fetch throws from the await as well)
SubscribeThrows(outcome) == outcome = 0 \/ (outcome # 200 /\ outcome # 202)

\* mutant of SubmitIgnored: the guard dropped
SubmitNeverIgnored(closure) == FALSE

\* if (status === 'pending') return; with the status the handler closed over
SubmitIgnored(closure) == closure.status = "pending"

SubscribeInit ==
    /\ status = "" /\ errorMsg = "" /\ disabled = FALSE /\ email = ""
    /\ rendered = [status |-> "", email |-> ""]
    /\ inflight = {} /\ submits = 0 /\ settled = <<>>

\* a render: the form's handlers close over the current state
Rendering(st, em) == [status |-> st, email |-> em]

\* onChange of the input (disabled while the rendered status is 'pending');
\* React renders before the event returns
ChangeEmail ==
    /\ rendered.status \notin {"pending", "success"}
    /\ \E e \in Emails :
        /\ email' = e
        /\ rendered' = Rendering(status, e)
    /\ UNCHANGED <<status, errorMsg, disabled, inflight, submits, settled>>
    /\ UNCHANGED <<uploadVars, accordionVars>>

\* a submit event on the rendered form: onSubmit up to its first await (the
\* guard, setStatus('pending'), the fetch call), then React's render of the
\* updates made in the event, before the event returns.  The required email
\* input blocks the event while it is enabled and empty.
Submit ==
    /\ rendered.status # "success"
    /\ rendered.status = "pending" \/ rendered.email # ""
    /\ submits < MaxSubmits
    /\ submits' = submits + 1
    /\ IF SubmitIgnored(rendered)
       THEN UNCHANGED <<status, inflight, rendered>>
       ELSE /\ status' = "pending"
            /\ inflight' = inflight \cup {[id |-> submits + 1, email |-> rendered.email]}
            /\ rendered' = Rendering("pending", email)
    /\ UNCHANGED <<errorMsg, disabled, email, settled>>
    /\ UNCHANGED <<uploadVars, accordionVars>>

\* a fetch settles and its onSubmit runs from the await to the end
FetchSettle ==
    /\ \E f \in inflight, outcome \in FetchOutcomes :
        /\ inflight' = inflight \ {f}
        /\ settled' = Append(settled, [id |-> f.id, outcome |-> outcome])
        /\ IF SubscribeThrows(outcome)
           THEN /\ disabled' = FALSE
                /\ status' = "error"
                /\ errorMsg' = "Something went wrong. Please try again later."
           ELSE /\ status' = "success"
                /\ UNCHANGED <<disabled, errorMsg>>
    /\ UNCHANGED <<email, rendered, submits>>
    /\ UNCHANGED <<uploadVars, accordionVars>>

\* React renders the state set outside an event (after the await)
Render ==
    /\ rendered # Rendering(status, email)
    /\ rendered' = Rendering(status, email)
    /\ UNCHANGED <<status, errorMsg, disabled, email, inflight, submits, settled>>
    /\ UNCHANGED <<uploadVars, accordionVars>>

-----------------------------------------------------------------------------
(* Accordion *)

SectionIds == 1..NumSections

NotActive == [tag |-> "false", id |-> 0, list |-> <<>>]

ActiveId(id) == [tag |-> "id", id |-> id, list |-> <<>>]

ActiveList(list) == [tag |-> "list", id |-> 0, list |-> list]

\* this.multiple in the constructor: a property of the component that is
\* never assigned, so undefined
ThisMultiple == FALSE

\* active: this.multiple ? [] : false
ConstructorActive == IF ThisMultiple THEN ActiveList(<<>>) ELSE NotActive

AccordionInit(m) ==
    /\ multiple = m /\ active = ConstructorActive /\ threw = FALSE /\ calls = <<>>

\* active.includes(id): only an array has the method
Includes(a, id) == \E i \in 1..Len(a.list) : a.list[i] = id

\* active.filter((_id) => _id !== id)
Filter(list, id) == SelectSeq(list, LAMBDA x : x # id)

\* setActiveSections(id), with the setState it makes applied
SetActiveSections ==
    /\ Len(calls) < MaxCalls
    /\ \E id \in SectionIds :
        /\ calls' = Append(calls, id)
        /\ IF multiple
           THEN IF active.tag # "list"
                THEN \* this.state.active.includes is not a function
                     /\ threw' = TRUE
                     /\ UNCHANGED active
                ELSE /\ active' = IF Includes(active, id)
                                  THEN ActiveList(Filter(active.list, id))
                                  ELSE ActiveList(Append(active.list, id))
                     /\ UNCHANGED threw
           ELSE /\ active' = IF active = ActiveId(id) THEN NotActive ELSE ActiveId(id)
                /\ UNCHANGED threw
    /\ UNCHANGED multiple
    /\ UNCHANGED <<uploadVars, subscribeVars>>

-----------------------------------------------------------------------------
(* userUploadsGet: the state machine *)

UploadsInit ==
    /\ request \in Requests
    /\ phase = "received"
    /\ response = NoResponse
    /\ listUploadsCalls = <<>>
    /\ via = "direct"

\* the whole handler: validation, the store call, the headers
UserUploadsGet ==
    /\ phase = "received"
    /\ LET v == Validate(request)
       IN  IF ~v.ok
           THEN /\ response' = ClientError(v.message)
                /\ listUploadsCalls' = <<>>
           ELSE \E data \in StoreOutcomes(QueryOf(request, v)) :
                /\ listUploadsCalls' = <<QueryOf(request, v)>>
                /\ response' = IF data.failed THEN InternalError
                               ELSE Page(v.size, v.offset, data)
    /\ phase' = "responded"
    /\ UNCHANGED <<request, via, subscribeVars, accordionVars>>

\* a client requests the page its Next_link names
FollowNext ==
    /\ phase = "responded"
    /\ response.status = 200
    /\ response.headers.Next_link.present
    /\ request' = LinkRequest(response.headers.Next_link)
    /\ phase' = "received"
    /\ response' = NoResponse
    /\ listUploadsCalls' = <<>>
    /\ via' = "next"
    /\ UNCHANGED <<subscribeVars, accordionVars>>

\* a client requests the page its Prev_link names
FollowPrev ==
    /\ phase = "responded"
    /\ response.status = 200
    /\ response.headers.Prev_link.present
    /\ request' = LinkRequest(response.headers.Prev_link)
    /\ phase' = "received"
    /\ response' = NoResponse
    /\ listUploadsCalls' = <<>>
    /\ via' = "prev"
    /\ UNCHANGED <<subscribeVars, accordionVars>>

Init == UploadsInit /\ SubscribeInit /\ AccordionInit(FALSE)

Next == UserUploadsGet \/ FollowNext \/ FollowPrev

Spec == Init /\ [][Next]_vars

-----------------------------------------------------------------------------
(* The Subscribe and Accordion components on their own *)

\* no request is being served
UploadsIdle ==
    /\ request = [name \in {"size", "offset", "before", "after", "sortBy", "sortOrder"}
                    |-> Absent]
    /\ phase = "idle"
    /\ response = NoResponse
    /\ listUploadsCalls = <<>>
    /\ via = "direct"

SubscribeSpecInit == UploadsIdle /\ SubscribeInit /\ AccordionInit(FALSE)

SubscribeNext == ChangeEmail \/ Submit \/ FetchSettle \/ Render

SubscribeSpec == SubscribeSpecInit /\ [][SubscribeNext]_vars

\* a fetch settles in the end: it resolves, or it rejects
FairSubscribeSpec == SubscribeSpec /\ WF_vars(FetchSettle)

AccordionSpecInit ==
    /\ UploadsIdle /\ SubscribeInit
    /\ \E m \in BOOLEAN : AccordionInit(m)

AccordionNext == SetActiveSections

AccordionSpec == AccordionSpecInit /\ [][AccordionNext]_vars


-----------------------------------------------------------------------------
(* Properties of userUploadsGet *)

\* a parsed number is an integer in lo..hi
InRange(p, lo, hi) == ~p.nan /\ p.val >= lo /\ p.val <= hi

\* the size and offset the request asks for, once validated
RequestedSize(req) == IF req.size.has THEN ParseInt(req.size.val).val ELSE 25

RequestedOffset(req) == IF req.offset.has THEN ParseInt(req.offset.val).val ELSE 0

SizeBad(req) == req.size.has /\ ~InRange(ParseInt(req.size.val), 1, 1000)

OffsetBad(req) == req.offset.has /\ ~InRange(ParseInt(req.offset.val), 1, 1000)

DateBad(param) == param.has /\ NewDate(param.val).nan

Served == phase = "responded"

ServedOk == phase = "responded" /\ response.status = 200

\* C1: a size parameter that is present and does not parse to an integer in
\* 1..1000 makes the call fail with status 400 ('invalid page size'), and
\* env.db.listUploads is not called for that request.
C1_InvalidSizeRejected ==
    (Served /\ SizeBad(request)) =>
        /\ response.status = 400
        /\ response.message = "invalid page size"
        /\ listUploadsCalls = <<>>

\* C1 witness: ?size=1001 was served and rejected
C1_Witness ==
    /\ Served
    /\ request.size = Present(<<"1", "0", "0", "1">>)
    /\ response.status = 400

\* C2: after a successful store call, Next_link is present exactly when
\* offset + len(uploads) < count, and it carries the request's size and
\* offset + size.
C2_NextLink ==
    ServedOk =>
        LET h == response.headers
            size == RequestedSize(request)
            offset == RequestedOffset(request)
        IN  /\ h.Next_link.present <=> (offset + Len(response.body) < h.Count)
            /\ h.Next_link.present =>
                /\ ParseInt(h.Next_link.size) = Num(size)
                /\ ParseInt(h.Next_link.offset) = Num(offset + size)

\* C2 witness: no parameters, 25 of 30 rows returned, the link names offset 25
C2_Witness ==
    /\ ServedOk
    /\ ~request.size.has /\ ~request.offset.has
    /\ response.headers.Count = 30
    /\ Len(response.body) = 25
    /\ response.headers.Next_link.present
    /\ response.headers.Next_link.offset = <<"2", "5">>

\* C3: after a successful store call, Prev_link is present exactly when the
\* validated offset is not 0, and it carries the request's size and
\* offset - size; with the offset parameter absent there is no Prev_link.
C3_PrevLink ==
    ServedOk =>
        LET h == response.headers
            size == RequestedSize(request)
            offset == RequestedOffset(request)
        IN  /\ h.Prev_link.present <=> (offset # 0)
            /\ h.Prev_link.present =>
                /\ ParseInt(h.Prev_link.size) = Num(size)
                /\ ParseInt(h.Prev_link.offset) = Num(offset - size)
            /\ ~request.offset.has => ~h.Prev_link.present

\* C3 witness: ?offset=1 with the default size gives a Prev_link to offset -24
C3_Witness ==
    /\ ServedOk
    /\ ~request.size.has
    /\ request.offset = Present(<<"1">>)
    /\ response.headers.Prev_link.present
    /\ response.headers.Prev_link.offset = <<"-", "2", "4">>

\* C4: an offset parameter that is present is accepted only if it parses to an
\* integer in 1..1000 (an explicit 0 is rejected); otherwise the call fails
\* with status 400 and the store is not called, so the store receives
\* offset = 0 only when the parameter is absent.
C4_OffsetValidated ==
    /\ (Served /\ OffsetBad(request)) =>
            /\ response.status = 400
            /\ listUploadsCalls = <<>>
    /\ (Served /\ OffsetBad(request) /\ ~SizeBad(request)) =>
            response.message = "invalid page offset"
    /\ \A i \in 1..Len(listUploadsCalls) :
            listUploadsCalls[i].offset = 0 => ~request.offset.has

\* C4 witness: ?offset=0 was served and rejected as an invalid offset
C4_Witness ==
    /\ Served
    /\ request.offset = Present(<<"0">>)
    /\ response.status = 400
    /\ response.message = "invalid page offset"

\* C5: an absent size gives size 25 and an absent offset gives offset 0, in
\* the arguments of env.db.listUploads and in the Size and Offset headers; a
\* request with no parameters queries the store with size 25 and offset 0.
C5_Defaults ==
    Served =>
        /\ \A i \in 1..Len(listUploadsCalls) :
            /\ ~request.size.has => listUploadsCalls[i].size = 25
            /\ ~request.offset.has => listUploadsCalls[i].offset = 0
        /\ response.status = 200 =>
            /\ ~request.size.has => response.headers.Size = 25
            /\ ~request.offset.has => response.headers.Offset = 0
        /\ (\A name \in DOMAIN request : ~request[name].has) =>
            /\ Len(listUploadsCalls) = 1
            /\ listUploadsCalls[1].size = 25
            /\ listUploadsCalls[1].offset = 0

\* C5 witness: a valid size with no offset was served with Offset 0
C5_Witness ==
    /\ ServedOk
    /\ request.size = Present(<<"1", "0", "0", "0">>)
    /\ ~request.offset.has
    /\ response.headers.Size = 1000
    /\ response.headers.Offset = 0

\* C6: the parameters are validated in the order size, offset, before, after;
\* the error reported is that of the first invalid parameter in that order,
\* and the store is called only when all four pass.
C6_ValidationOrder ==
    Served =>
        LET expected ==
                IF SizeBad(request) THEN "invalid page size"
                ELSE IF OffsetBad(request) THEN "invalid page offset"
                ELSE IF DateBad(request.before) THEN "invalid before date"
                ELSE IF DateBad(request.after) THEN "invalid after date"
                ELSE ""
        IN  IF expected = ""
            THEN response.status # 400 /\ Len(listUploadsCalls) = 1
            ELSE /\ response.status = 400
                 /\ response.message = expected
                 /\ listUploadsCalls = <<>>

\* C6 witness: offset, before and after are all invalid and the offset's
\* error is the one reported
C6_Witness ==
    /\ Served
    /\ ~SizeBad(request) /\ request.size.has
    /\ OffsetBad(request) /\ DateBad(request.before) /\ DateBad(request.after)
    /\ response.message = "invalid page offset"

\* C7: in a successful response a Next_link is present only when a matching
\* upload lies at an index >= offset + len(uploads), and a Prev_link only when
\* a matching upload lies at an index < offset (indices 0..count-1).
C7_LinksOnlyWhenMoreData ==
    ServedOk =>
        LET h == response.headers
            offset == h.Offset
            indices == 0..(h.Count - 1)
        IN  /\ h.Next_link.present =>
                \E i \in indices : i >= offset + Len(response.body)
            /\ h.Prev_link.present =>
                \E i \in indices : i < offset

\* C8: a request made from an emitted Next_link or Prev_link passes
\* validation: it is never answered with status 400.
C8_LinksNavigable ==
    (Served /\ via \in {"next", "prev"}) => response.status # 400

-----------------------------------------------------------------------------
(* Properties of Subscribe *)

\* C9: at most one subscription POST is in flight at any time, a submit made
\* while a request is in flight issues no fetch, and every issued request
\* moves status from 'pending' to 'success' (HTTP 200 or 202) or to 'error'
\* (any other status, or a rejected fetch).
C9_OnePostInFlight ==
    /\ [](Cardinality(inflight) <= 1)
    /\ [][inflight # {} => inflight' \subseteq inflight]_vars
    /\ [][settled' # settled =>
            /\ status = "pending"
            /\ LET outcome == settled'[Len(settled')].outcome
               IN  status' = IF outcome \in {200, 202} THEN "success" ELSE "error"]_vars
    /\ (status = "pending") ~> (status \in {"success", "error"})

\* C9 witness: a submit event arrived while a fetch was in flight and issued
\* no second one
C9_Witness ==
    /\ status = "pending"
    /\ Cardinality(inflight) = 1
    /\ \E f \in inflight : f.id < submits

-----------------------------------------------------------------------------
(* Properties of Accordion *)

\* number of times id occurs in a sequence of calls
RECURSIVE Occurrences(_, _)
Occurrences(seq, id) ==
    IF seq = <<>> THEN 0
    ELSE (IF seq[1] = id THEN 1 ELSE 0) + Occurrences(Tail(seq), id)

\* C10: with props.multiple = true any sequence of setActiveSections calls
\* completes without throwing and leaves state.active a duplicate-free list of
\* exactly the ids toggled an odd number of times; with props.multiple = false
\* state.active is false or the most recently opened id, and toggling the
\* active id resets it to false.
C10_TogglingWorks ==
    calls # <<>> =>
        /\ ~threw
        /\ multiple =>
            /\ active.tag = "list"
            /\ \A i, j \in 1..Len(active.list) :
                    active.list[i] = active.list[j] => i = j
            /\ {active.list[i] : i \in 1..Len(active.list)}
                    = {id \in SectionIds : Occurrences(calls, id) % 2 = 1}
        /\ ~multiple =>
            \/ active = NotActive
            \/ active = ActiveId(calls[Len(calls)])

=============================================================================
